---- MODULE Spec2Model ----
(***************************************************************************)
(* Model of the core_model_macros schema compiler: the #[model_schema]     *)
(* attribute macro that turns one struct or enum declaration into three    *)
(* emitted methods (ts_definition, zod_schema, json_schema).               *)
(*                                                                         *)
(* Representation.  A Rust String whose characters the compiler inspects   *)
(* or that ends up in emitted text is a sequence of one-character strings  *)
(* ("user_id" is <<"u","s","e","r","_","i","d">>), so that prefix, suffix  *)
(* and per-character case operations are computed, not assumed.            *)
(* Option<T> is None or Some(v).  A serde_json object with fixed keys is a *)
(* record; the `properties` map keyed by field names is a function whose   *)
(* domain is a set of names.  A panic of the macro is the value Panic(..). *)
(***************************************************************************)
EXTENDS Integers, Sequences, FiniteSets, TLC

VARIABLES item, out, pc

vars == <<item, out, pc>>

(***************************************************************************)
(* Bounds of the model.                                                    *)
(***************************************************************************)
MaxNameLen == 3
MaxFields == 3
MaxVariants == 2

(***************************************************************************)
(* Option<T>.                                                              *)
(***************************************************************************)
None == [some |-> FALSE]
Some(v) == [some |-> TRUE, v |-> v]

(***************************************************************************)
(* Text literals of the source, as character sequences.                    *)
(***************************************************************************)
S_Json == <<"J", "s", "o", "n">>
S_unknown == <<"u", "n", "k", "n", "o", "w", "n">>
S_boolean == <<"b", "o", "o", "l", "e", "a", "n">>
S_string == <<"s", "t", "r", "i", "n", "g">>
S_number == <<"n", "u", "m", "b", "e", "r">>
S_ArrayOpen == <<"A", "r", "r", "a", "y", "<">>
S_Lt == <<"<">>
S_Gt == <<">">>
S_OrUndefined == <<" ", "|", " ", "u", "n", "d", "e", "f", "i", "n", "e", "d">>
S_PartialRecordOpen == <<"P", "a", "r", "t", "i", "a", "l", "<", "R", "e", "c", "o", "r", "d", "<">>
S_CommaSp == <<",", " ">>
S_GtGt == <<">", ">">>
S_BraceOpenSp == <<"{", " ">>
S_SpBraceClose == <<" ", "}">>
S_ColonSp == <<":", " ">>
S_SemiSp == <<";", " ">>
S_Quote == <<"\"">>
S_z_unknown == <<"z", ".", "u", "n", "k", "n", "o", "w", "n", "(", ")">>
S_DollarSchema == <<"$", "S", "c", "h", "e", "m", "a">>
S_z_record_open == <<"z", ".", "r", "e", "c", "o", "r", "d", "(">>
S_ParenClose == <<")">>
S_z_boolean == <<"z", ".", "b", "o", "o", "l", "e", "a", "n", "(", ")">>
S_z_string == <<"z", ".", "s", "t", "r", "i", "n", "g", "(", ")">>
S_z_number_int == <<"z", ".", "n", "u", "m", "b", "e", "r", "(", ")", ".", "i", "n", "t", "(", ")">>
S_z_number == <<"z", ".", "n", "u", "m", "b", "e", "r", "(", ")">>
S_z_array_open == <<"z", ".", "a", "r", "r", "a", "y", "(">>
S_dot_optional == <<".", "o", "p", "t", "i", "o", "n", "a", "l", "(", ")">>
S_z_literal_open == <<"z", ".", "l", "i", "t", "e", "r", "a", "l", "(", "\"">>
S_z_literal_close == <<"\"", ")">>
S_or_z_undefined == <<".", "o", "r", "(", "z", ".", "u", "n", "d", "e", "f", "i", "n", "e", "d", "(", ")", ")">>
S_element_ == <<"e", "l", "e", "m", "e", "n", "t", "_">>
S_type == <<"t", "y", "p", "e">>
I_bool == <<"b", "o", "o", "l">>
I_String == <<"S", "t", "r", "i", "n", "g">>
I_u8 == <<"u", "8">>
I_u16 == <<"u", "1", "6">>
I_u32 == <<"u", "3", "2">>
I_u64 == <<"u", "6", "4">>
I_i8 == <<"i", "8">>
I_i16 == <<"i", "1", "6">>
I_i32 == <<"i", "3", "2">>
I_i64 == <<"i", "6", "4">>
I_usize == <<"u", "s", "i", "z", "e">>
I_isize == <<"i", "s", "i", "z", "e">>
I_f32 == <<"f", "3", "2">>
I_f64 == <<"f", "6", "4">>
I_Option == <<"O", "p", "t", "i", "o", "n">>
I_Vec == <<"V", "e", "c">>
I_HashMap == <<"H", "a", "s", "h", "M", "a", "p">>
I_HashSet == <<"H", "a", "s", "h", "S", "e", "t">>
I_BTreeMap == <<"B", "T", "r", "e", "e", "M", "a", "p">>
I_ObjectId == <<"O", "b", "j", "e", "c", "t", "I", "d">>
I_Box == <<"B", "o", "x">>
I_Address == <<"A", "d", "d", "r", "e", "s", "s">>
I_AddressJson == <<"A", "d", "d", "r", "e", "s", "s", "J", "s", "o", "n">>
I_Status == <<"S", "t", "a", "t", "u", "s">>
N_id == <<"i", "d">>
N_age == <<"a", "g", "e">>
N_tags == <<"t", "a", "g", "s">>
N_user_id == <<"u", "s", "e", "r", "_", "i", "d">>
N_dataJson == <<"d", "a", "t", "a", "J", "s", "o", "n">>
N_kind == <<"k", "i", "n", "d">>
N_emailAddress == <<"e", "m", "a", "i", "l", "A", "d", "d", "r", "e", "s", "s">>
N_e_mail == <<"e", "-", "m", "a", "i", "l">>
N_fixed == <<"f", "i", "x", "e", "d">>
V_Ab == <<"A", "b">>
V_AB == <<"A", "B">>
V_ab == <<"a", "b">>
E_User == <<"U", "s", "e", "r">>
E_EventJson == <<"E", "v", "e", "n", "t", "J", "s", "o", "n">>

(***************************************************************************)
(* String helpers (std::string::String).                                   *)
(***************************************************************************)
LowerLetters == <<"a","b","c","d","e","f","g","h","i","j","k","l","m",
                  "n","o","p","q","r","s","t","u","v","w","x","y","z">>
UpperLetters == <<"A","B","C","D","E","F","G","H","I","J","K","L","M",
                  "N","O","P","Q","R","S","T","U","V","W","X","Y","Z">>

IsUpperChar(c) == \E i \in 1..26 : UpperLetters[i] = c
IsLowerChar(c) == \E i \in 1..26 : LowerLetters[i] = c

\* char::to_lowercase().next().unwrap() / char::to_ascii_lowercase on the model's alphabet
ToLowerChar(c) ==
    IF IsUpperChar(c) THEN LowerLetters[CHOOSE i \in 1..26 : UpperLetters[i] = c] ELSE c

\* char::to_uppercase().next().unwrap() / char::to_ascii_uppercase on the model's alphabet
ToUpperChar(c) ==
    IF IsLowerChar(c) THEN UpperLetters[CHOOSE i \in 1..26 : LowerLetters[i] = c] ELSE c

\* str::to_lowercase
to_lowercase(s) == [i \in 1..Len(s) |-> ToLowerChar(s[i])]

\* str::to_uppercase
to_uppercase(s) == [i \in 1..Len(s) |-> ToUpperChar(s[i])]

\* str::ends_with
EndsWith(s, suffix) ==
    /\ Len(s) >= Len(suffix)
    /\ SubSeq(s, Len(s) - Len(suffix) + 1, Len(s)) = suffix

\* str::starts_with
StartsWith(s, prefix) ==
    /\ Len(s) >= Len(prefix)
    /\ SubSeq(s, 1, Len(prefix)) = prefix

\* str::contains for a single character
ContainsChar(s, c) == \E i \in 1..Len(s) : s[i] = c

\* str::contains for a substring
Contains(s, sub) ==
    \E i \in 1..(Len(s) - Len(sub) + 1) : SubSeq(s, i, i + Len(sub) - 1) = sub

\* Vec<String>::join(sep)
RECURSIVE Join(_, _)
Join(parts, sep) ==
    IF Len(parts) = 0 THEN <<>>
    ELSE IF Len(parts) = 1 THEN parts[1]
    ELSE parts[1] \o sep \o Join(Tail(parts), sep)

\* all sequences over S of length 0..n
RECURSIVE SeqsUpTo(_, _)
SeqsUpTo(S, n) ==
    IF n = 0 THEN {<<>>}
    ELSE LET shorter == SeqsUpTo(S, n - 1)
         IN shorter \cup {Append(s, x) : s \in {t \in shorter : Len(t) = n - 1}, x \in S}

(***************************************************************************)
(* utils.rs                                                                *)
(***************************************************************************)
\* the suffix kept
safe_type_name_keeps(key) == key
\* safe_type_name: drop one trailing "Json"
safe_type_name(key) ==
    IF EndsWith(key, S_Json) THEN SubSeq(key, 1, Len(key) - Len(S_Json)) ELSE key

(***************************************************************************)
(* model_schema.rs: name resolution                                        *)
(***************************************************************************)
\* the loop body of snake_to_camel from 0-based index i - 1, with the
\* accumulated result and the capitalize_next flag
RECURSIVE snake_to_camel_loop(_, _, _, _)
snake_to_camel_loop(s, i, result, capitalize_next) ==
    IF i > Len(s) THEN result
    ELSE LET c == s[i] IN
         IF c = "_" THEN snake_to_camel_loop(s, i + 1, result, TRUE)
         ELSE IF i = 1 THEN
            snake_to_camel_loop(s, i + 1, Append(result, ToLowerChar(c)), capitalize_next)
         ELSE IF capitalize_next THEN
            snake_to_camel_loop(s, i + 1, Append(result, ToUpperChar(c)), FALSE)
         ELSE snake_to_camel_loop(s, i + 1, Append(result, c), capitalize_next)

snake_to_camel(s) == snake_to_camel_loop(s, 1, <<>>, FALSE)

\* get_final_name(name, field_rename, rename_all)
get_final_name_ignoring_rename(name, field_rename, rename_all) ==
    IF rename_all = Some("camelCase") THEN snake_to_camel(name) ELSE name
get_final_name(name, field_rename, rename_all) ==
    IF field_rename.some THEN field_rename.v
    ELSE IF rename_all = Some("camelCase") THEN snake_to_camel(name)
    ELSE IF rename_all = Some("lowercase") THEN to_lowercase(name)
    ELSE name

(***************************************************************************)
(* field_type.rs: the normalized type model                                *)
(***************************************************************************)
\* a panic!() of the macro: compilation of the declaration aborts
Panic(msg) == [panic |-> msg]
\* panic!("...: {a} - {b:?}"): the fixed text, the strings formatted into it
\* with Display and the values formatted into it with Debug
PanicReporting(msg, texts, values) == [panic |-> msg, texts |-> texts, debug |-> values]
IsPanic(x) == "panic" \in DOMAIN x

\* enum FieldDefType.  StringLiteral and ObjectId are the two variants that
\* model_schema.rs matches on in addition to those declared in field_type.rs.
Unknown == [t |-> "Unknown"]
Primitive(kind) == [t |-> kind]
SiblingType(name, lst) == [t |-> "SiblingType", name |-> name, lst |-> lst]
Map(key, value) == [t |-> "Map", key |-> key, value |-> value]
Tuple(lst) == [t |-> "Tuple", lst |-> lst]
StringLiteral(literal) == [t |-> "StringLiteral", literal |-> literal]
ObjectId == [t |-> "ObjectId"]

IntegerKinds == {"U8", "U16", "U32", "U64", "I8", "I16", "I32", "I64", "Usize", "Isize"}
FloatKinds == {"F32", "F64"}

\* syn::Type, the raw type descriptor of a field
TypePath(ident) == [k |-> "Path", ident |-> ident, arguments |-> [a |-> "None"]]
TypeGeneric(ident, args) ==
    [k |-> "Path", ident |-> ident, arguments |-> [a |-> "AngleBracketed", args |-> args]]
TypeParenthesized(ident) ==
    [k |-> "Path", ident |-> ident, arguments |-> [a |-> "Parenthesized"]]
TypeReference(elem) == [k |-> "Reference", elem |-> elem]
TypeArray(elem) == [k |-> "Array", elem |-> elem]
TypeSlice(elem) == [k |-> "Slice", elem |-> elem]
TypeTuple(elems) == [k |-> "Tuple", elems |-> elems]
TypeOther == [k |-> "Other"]

\* get_field_def_type_or_sibling(t_name)
get_field_def_type_or_sibling(t_name) ==
    CASE t_name = I_bool -> Primitive("Boolean")
      [] t_name = I_String -> Primitive("String")
      [] t_name = I_u8 -> Primitive("U8")
      [] t_name = I_u16 -> Primitive("U16")
      [] t_name = I_u32 -> Primitive("U32")
      [] t_name = I_u64 -> Primitive("U64")
      [] t_name = I_i8 -> Primitive("I8")
      [] t_name = I_i16 -> Primitive("I16")
      [] t_name = I_i32 -> Primitive("I32")
      [] t_name = I_i64 -> Primitive("I64")
      [] t_name = I_usize -> Primitive("Usize")
      [] t_name = I_isize -> Primitive("Isize")
      [] t_name = I_f32 -> Primitive("F32")
      [] t_name = I_f64 -> Primitive("F64")
      [] OTHER -> IF EndsWith(t_name, S_Json)
                  THEN SiblingType(safe_type_name(t_name), <<>>)
                  ELSE SiblingType(t_name, <<>>)

\* usize formatted by format!("{idx}"), for the tuple positions the model reaches
DigitChars == <<"0", "1", "2", "3", "4", "5", "6", "7", "8", "9">>
FormatIndex(idx) == <<DigitChars[idx + 1]>>

\* get_field_def, arm `arg_types.len() == 1 && &ident == "Option"`: the
\* argument's definition, renamed and made optional
option_of(arg_type, safe_name) ==
    [arg_type EXCEPT !.name = safe_name, !.is_optional = TRUE]

\* a list that forgets the optionality of its element
vec_of_required(arg_type, safe_name) ==
    [arg_type EXCEPT !.name = safe_name, !.is_array = TRUE, !.is_optional = FALSE]
\* get_field_def, arm `arg_types.len() == 1 && &ident == "Vec"`: the
\* argument's definition, renamed and made an array
vec_of(arg_type, safe_name) ==
    [arg_type EXCEPT !.name = safe_name, !.is_array = TRUE]

\* get_field_def(name, ty, field_docs)
RECURSIVE get_field_def(_, _, _)
get_field_def(name, ty, field_docs) ==
    LET safe_name == safe_type_name(name)
        plain(ft) == [is_optional |-> FALSE, name |-> safe_name, docs |-> field_docs,
                      field_type |-> ft, is_array |-> FALSE, array_num |-> None]
    IN
    CASE ty.k = "Path" ->
        (CASE ty.arguments.a = "None" -> plain(get_field_def_type_or_sibling(ty.ident))
           [] ty.arguments.a = "AngleBracketed" ->
                LET args == ty.arguments.args
                    arg_types == [i \in 1..Len(args) |-> get_field_def(<<>>, args[i], <<>>)]
                IN
                IF \E i \in 1..Len(args) : IsPanic(arg_types[i])
                THEN arg_types[CHOOSE i \in 1..Len(args) :
                        /\ IsPanic(arg_types[i])
                        /\ \A j \in 1..(i - 1) : ~IsPanic(arg_types[j])]
                ELSE IF Len(arg_types) = 0 THEN plain(SiblingType(ty.ident, <<>>))
                ELSE IF Len(arg_types) = 1 /\ ty.ident = I_Option THEN
                    option_of(arg_types[1], safe_name)
                ELSE IF Len(arg_types) = 1 /\ ty.ident = I_Vec THEN
                    vec_of(arg_types[1], safe_name)
                ELSE IF Len(arg_types) = 2 /\ ty.ident = I_HashMap THEN
                    plain(Map(arg_types[1], arg_types[2]))
                ELSE plain(SiblingType(ty.ident, arg_types))
           [] ty.arguments.a = "Parenthesized" -> Panic("Unsupported field type"))
      [] ty.k = "Reference" -> get_field_def(name, ty.elem, field_docs)
      [] ty.k \in {"Array", "Slice"} ->
            LET def == get_field_def(name, ty.elem, field_docs)
            IN IF IsPanic(def) THEN def
               ELSE [def EXCEPT !.is_array = TRUE, !.array_num = None]
      [] ty.k = "Tuple" ->
            LET elements == [idx \in 1..Len(ty.elems) |->
                    get_field_def(S_element_ \o FormatIndex(idx - 1), ty.elems[idx], field_docs)]
            IN IF \E i \in 1..Len(ty.elems) : IsPanic(elements[i])
               THEN elements[CHOOSE i \in 1..Len(ty.elems) :
                        /\ IsPanic(elements[i])
                        /\ \A j \in 1..(i - 1) : ~IsPanic(elements[j])]
               ELSE plain(Tuple(elements))
      [] OTHER -> plain(Unknown)

\* The StringLiteral arms of the two text emitters.  process_field builds
\* FieldDefType::StringLiteral, which the match of typescript_typename and of
\* zod_type in field_type.rs does not list; taken from the emitter contract:
\* the quoted literal used as a type, and a constant-value validator.
typescript_typename_StringLiteral(literal) == S_Quote \o literal \o S_Quote
zod_type_StringLiteral(literal) == S_z_literal_open \o literal \o S_z_literal_close

\* the optional wrap left out
typescript_optional_wrap_never(self, pre_result) == pre_result
\* FieldDef::typescript_typename: the last step, format!("{pre_result} | undefined")
\* when is_optional
typescript_optional_wrap(self, pre_result) ==
    IF self.is_optional THEN pre_result \o S_OrUndefined ELSE pre_result

\* FieldDef::typescript_typename(&self)
RECURSIVE typescript_typename(_)
typescript_typename(self) ==
    LET ft == self.field_type
        result ==
          CASE ft.t = "Unknown" -> S_unknown
            [] ft.t = "Tuple" ->
                 S_BraceOpenSp
                 \o Join([i \in 1..Len(ft.lst) |->
                            ft.lst[i].name \o S_ColonSp \o typescript_typename(ft.lst[i])],
                         S_SemiSp)
                 \o S_SpBraceClose
            [] ft.t = "SiblingType" ->
                 IF Len(ft.lst) = 0 THEN ft.name
                 ELSE ft.name \o S_Lt
                      \o Join([i \in 1..Len(ft.lst) |-> typescript_typename(ft.lst[i])],
                              S_CommaSp)
                      \o S_Gt
            [] ft.t = "Map" ->
                 S_PartialRecordOpen \o typescript_typename(ft.key) \o S_CommaSp
                 \o typescript_typename(ft.value) \o S_GtGt
            [] ft.t = "Boolean" -> S_boolean
            [] ft.t = "String" -> S_string
            [] ft.t \in IntegerKinds -> S_number
            [] ft.t \in FloatKinds -> S_number
            [] ft.t = "StringLiteral" -> typescript_typename_StringLiteral(ft.literal)
        pre_result == IF self.is_array THEN S_ArrayOpen \o result \o S_Gt ELSE result
    IN typescript_optional_wrap(self, pre_result)

\* FieldDef::zod_type(&self)
RECURSIVE zod_type(_)
zod_type(self) ==
    LET ft == self.field_type
        result ==
          CASE ft.t = "Unknown" -> S_z_unknown
            [] ft.t = "Tuple" ->
                 S_BraceOpenSp
                 \o Join([i \in 1..Len(ft.lst) |->
                            ft.lst[i].name \o S_ColonSp \o zod_type(ft.lst[i])],
                         S_SemiSp)
                 \o S_SpBraceClose
            [] ft.t = "SiblingType" ->
                 IF Len(ft.lst) = 0 THEN ft.name \o S_DollarSchema
                 ELSE ft.name \o S_Lt
                      \o Join([i \in 1..Len(ft.lst) |-> typescript_typename(ft.lst[i])],
                              S_CommaSp)
                      \o S_Gt
            [] ft.t = "Map" ->
                 S_z_record_open \o zod_type(ft.key) \o S_CommaSp
                 \o zod_type(ft.value) \o S_ParenClose
            [] ft.t = "Boolean" -> S_z_boolean
            [] ft.t = "String" -> S_z_string
            [] ft.t \in IntegerKinds -> S_z_number_int
            [] ft.t \in FloatKinds -> S_z_number
            [] ft.t = "StringLiteral" -> zod_type_StringLiteral(ft.literal)
        pre_result == IF self.is_array THEN S_z_array_open \o result \o S_ParenClose ELSE result
    IN IF self.is_optional THEN pre_result \o S_dot_optional ELSE pre_result

(***************************************************************************)
(* model_schema.rs: JSON Schema emission                                   *)
(***************************************************************************)
\* serde_json values.  json!(true) / json!(false) are wrapped so that they
\* compare with object schemas.
JTrue == [bool |-> TRUE]
JFalse == [bool |-> FALSE]
JType(name) == [type |-> name]
JArray(items) == [type |-> "array", items |-> items]
JMapOf(additional) == [type |-> "object", additionalProperties |-> additional]
\* the runtime call `<ident>::json_schema()` spliced into the generated code
JsonSchemaCall(ident) == [call |-> "json_schema", on |-> ident]
\* the runtime call `<ident>::enum_members()` spliced into the generated code
EnumMembersCall(ident) == [call |-> "enum_members", on |-> ident]

\* the checks proc_macro2::Ident::new makes on its string, on the model's
\* alphabet: a letter or "_" first, then letters, digits and "_"
IsIdentStart(c) == c = "_" \/ IsUpperChar(c) \/ IsLowerChar(c)
IsIdentContinue(c) == IsIdentStart(c) \/ (\E d \in 1..10 : DigitChars[d] = c)

\* proc_macro2::Ident::new(string, Span::call_site()) during macro expansion:
\* the identifier, or the compiler's panic "{string:?} is not a valid
\* identifier" for every string that is not one
Ident_new(string) ==
    IF /\ string # <<>>
       /\ IsIdentStart(string[1])
       /\ \A i \in 2..Len(string) : IsIdentContinue(string[i])
    THEN [ident |-> string]
    ELSE PanicReporting("is not a valid identifier", <<>>, <<string>>)

\* the inline ObjectId schema of build_field_schema
ObjectIdJsonSchema ==
    [type |-> "object",
     properties |-> ("$oid" :> JType("string")),
     required |-> <<"$oid">>,
     additionalProperties |-> JFalse]

\* the { "type": ... } object the primitive arms of build_field_schema write
PrimitiveJsonSchema(ft) ==
    CASE ft.t = "String" -> JType("string")
      [] ft.t \in IntegerKinds -> JType("integer")
      [] ft.t \in FloatKinds -> JType("number")
      [] ft.t = "Boolean" -> JType("boolean")

IsPrimitive(ft) == ft.t \in ({"String", "Boolean"} \cup IntegerKinds \cup FloatKinds)

\* generate_type_schema(fld, field_name_str, type_json_schema): the value inserted
generate_type_schema(fld, type_json_schema) ==
    IF fld.is_array THEN JArray(type_json_schema) ELSE type_json_schema

\* inner_value_schema of the Map-in-Map arm (value.is_array, inner key String)
inner_value_schema_of_array_map(ft) ==
    IF IsPrimitive(ft) THEN PrimitiveJsonSchema(ft)
    ELSE IF ft.t = "ObjectId" THEN ObjectIdJsonSchema
    ELSE JTrue

\* inner_value_schema of the Vec<HashMap<String, T>> arm under a SiblingType value
inner_value_schema_of_vec_sibling(ft) ==
    IF IsPrimitive(ft) THEN PrimitiveJsonSchema(ft) ELSE JTrue

\* every value left undescribed
map_string_key_schema_open(value) == JMapOf(JTrue)
\* build_field_schema, arm FieldDefType::Map(key, value) with a String key
map_string_key_schema(value) ==
    LET vt == value.field_type IN
    IF IsPrimitive(vt) THEN
        IF value.is_array THEN JMapOf(JArray(PrimitiveJsonSchema(vt)))
        ELSE JMapOf(PrimitiveJsonSchema(vt))
    ELSE IF vt.t = "ObjectId" THEN
        IF value.is_array THEN JMapOf(JArray(ObjectIdJsonSchema))
        ELSE JMapOf(ObjectIdJsonSchema)
    ELSE IF vt.t = "Map" THEN
        IF value.is_array /\ vt.key.field_type.t = "String"
        THEN JMapOf(JArray(JMapOf(inner_value_schema_of_array_map(vt.value.field_type))))
        ELSE JMapOf(JTrue)
    ELSE IF vt.t = "SiblingType" THEN
        IF vt.name = I_Vec /\ Len(vt.lst) = 1 THEN
            LET inner == vt.lst[1].field_type IN
            IF inner.t = "Map" THEN
                IF inner.key.field_type.t = "String"
                THEN JMapOf(JArray(JMapOf(
                        inner_value_schema_of_vec_sibling(inner.value.field_type))))
                ELSE JMapOf(JTrue)
            ELSE IF IsPrimitive(inner) THEN JMapOf(JArray(PrimitiveJsonSchema(inner)))
            ELSE IF inner.t = "ObjectId" THEN JMapOf(JArray(ObjectIdJsonSchema))
            ELSE JMapOf(JTrue)
        ELSE JMapOf(JTrue)
    ELSE JMapOf(JTrue)

\* build_field_schema, named-key Map arm with a named value type: the closed
\* object the generated loop builds, or the panic of the value's Ident::new
map_enum_key_object(key_type_name_ident, value_type_name_ident) ==
    IF IsPanic(value_type_name_ident) THEN value_type_name_ident
    ELSE [type |-> "object",
          properties |-> [for_each |-> EnumMembersCall(key_type_name_ident.ident),
                          value_schema |-> JsonSchemaCall(value_type_name_ident.ident)],
          additionalProperties |-> JFalse]

\* build_field_schema, arm FieldDefType::Map(key, value) with a named key type
\* without type arguments: the generated loop over <Key>Json::enum_members()
map_enum_key_schema(key, value) ==
    LET vt == value.field_type
        key_type_name_ident == Ident_new(key.field_type.name \o S_Json)
    IN
    IF IsPanic(key_type_name_ident) THEN key_type_name_ident
    ELSE IF vt.t = "SiblingType" /\ Len(vt.lst) = 0
    THEN map_enum_key_object(key_type_name_ident, Ident_new(vt.name \o S_Json))
    ELSE PanicReporting("Unsupported map value type", <<>>, <<vt>>)

\* build_field_schema, catch-all arm: `#name_ident::json_schema()`, or the
\* panic of Ident::new
json_schema_call(name_ident) ==
    IF IsPanic(name_ident) THEN name_ident ELSE JsonSchemaCall(name_ident.ident)

\* build_field_schema, SiblingType arm without type arguments: the call
\* handed to generate_type_schema, or the panic of Ident::new
json_schema_of_ident(fld, name_ident) ==
    IF IsPanic(name_ident) THEN name_ident
    ELSE generate_type_schema(fld, json_schema_call(name_ident))

\* build_field_schema: the schema_code match; the value that the generated
\* code inserts into `properties` under the field name
schema_code(fld) ==
    LET ft == fld.field_type IN
    CASE IsPrimitive(ft) ->
            IF fld.is_array THEN JArray(PrimitiveJsonSchema(ft)) ELSE PrimitiveJsonSchema(ft)
      [] ft.t = "StringLiteral" ->
            IF fld.is_array THEN JArray([type |-> "string", const |-> ft.literal])
            ELSE [type |-> "string", const |-> ft.literal]
      [] ft.t = "ObjectId" ->
            IF fld.is_array THEN JArray(ObjectIdJsonSchema) ELSE ObjectIdJsonSchema
      [] ft.t = "SiblingType" ->
            IF (ft.name = I_Vec \/ ft.name = I_HashSet) /\ Len(ft.lst) = 1
            THEN JArray(JType("string"))
            ELSE IF (ft.name = I_HashMap \/ ft.name = I_BTreeMap) /\ Len(ft.lst) = 2
            THEN JMapOf(JTrue)
            ELSE IF Len(ft.lst) = 0
            THEN json_schema_of_ident(fld, Ident_new(ft.name \o S_Json))
            ELSE PanicReporting("Unsupported generic type", <<ft.name>>, <<ft.lst>>)
      [] ft.t = "Map" ->
            (CASE ft.key.field_type.t = "String" -> map_string_key_schema(ft.value)
               [] ft.key.field_type.t = "SiblingType" /\ Len(ft.key.field_type.lst) = 0 ->
                    map_enum_key_schema(ft.key, ft.value)
               [] OTHER -> JMapOf(JTrue))
      [] OTHER -> json_schema_call(Ident_new(fld.name \o S_Json))

\* every field pushed onto required
required_code_always(fld) == <<fld.name>>
\* build_field_schema: required_code, the names the generated code pushes
required_code(fld) == IF ~fld.is_optional THEN <<fld.name>> ELSE <<>>

\* build_field_schema(fld): the effect of the generated statements, as the
\* key/value inserted into `properties` and the names pushed onto `required`
build_field_schema(fld) ==
    LET code == schema_code(fld) IN
    IF IsPanic(code) THEN code
    ELSE [key |-> fld.name, value |-> code, required |-> required_code(fld)]

\* serde_json::Map::insert
MapInsert(m, key, value) ==
    [k \in (DOMAIN m) \cup {key} |-> IF k = key THEN value ELSE m[k]]

\* the statements of the generated json_schema() body run in order
RECURSIVE run_properties(_, _)
run_properties(properties, stmts) ==
    IF stmts = <<>> THEN properties
    ELSE run_properties(MapInsert(properties, Head(stmts).key, Head(stmts).value),
                        Tail(stmts))

RECURSIVE run_required(_, _)
run_required(required, stmts) ==
    IF stmts = <<>> THEN required
    ELSE run_required(required \o Head(stmts).required, Tail(stmts))

EmptyMap == [k \in {} |-> {}]

\* features/jsonschema.rs generate_struct_json_schema_method: the value
\* json_schema() returns
generate_struct_json_schema_method(json_schema_fields) ==
    [type |-> "object",
     additionalProperties |-> JFalse,
     properties |-> run_properties(EmptyMap, json_schema_fields),
     required |-> run_required(<<>>, json_schema_fields)]

(***************************************************************************)
(* model_schema.rs: fields and records                                     *)
(***************************************************************************)
\* features/model_schema_prop.rs ModelSchemaPropMeta, as returned by
\* parse_model_schema_prop_attributes
ModelSchemaPropMeta(as_type, literal, min_length) ==
    [as_type |-> as_type, literal |-> literal, min_length |-> min_length]

\* the docs text process_field builds when the field has no doc comment:
\* the lines [final_name, ""] each formatted " * {l}" and joined by "\n"
default_docs(final_name) == <<" ", "*", " ">> \o final_name \o <<"\n", " ", "*", " ">>

\* the model_schema_prop_meta process_field stores in the FieldDef
stored_prop_meta(model_schema_prop_meta) ==
    IF model_schema_prop_meta.as_type.some \/ model_schema_prop_meta.literal.some
    THEN Some(model_schema_prop_meta)
    ELSE None

\* no override applied
overridden_field_type_never(field_type, stored_meta) == field_type
\* the type override process_field applies from the stored meta
overridden_field_type(field_type, stored_meta) ==
    IF stored_meta.some /\ stored_meta.v.literal.some
    THEN StringLiteral(stored_meta.v.literal.v)
    ELSE field_type

\* process_field(rename_all, field)
process_field(rename_all, field) ==
    LET field_rename == field.rename
        model_schema_prop_meta == field.prop
        final_name == get_final_name(field.ident, field_rename, rename_all)
        field_docs == default_docs(final_name)
        field_def == get_field_def(final_name, field.ty, field_docs)
        stored == stored_prop_meta(model_schema_prop_meta)
    IN IF IsPanic(field_def) THEN field_def
       ELSE [is_optional |-> field_def.is_optional,
             name |-> field_def.name,
             docs |-> field_def.docs,
             field_type |-> overridden_field_type(field_def.field_type, stored),
             is_array |-> field_def.is_array,
             array_num |-> field_def.array_num,
             model_schema_prop_meta |-> stored]

\* the first panic of a sequence of results, in evaluation order
FirstPanic(results) ==
    results[CHOOSE i \in 1..Len(results) :
                /\ IsPanic(results[i])
                /\ \A j \in 1..(i - 1) : ~IsPanic(results[j])]
AnyPanic(results) == \E i \in 1..Len(results) : IsPanic(results[i])

\* write_field_type_and_schema: the line written to type_code,
\* "  /**\n{docs}\n**/\n  {name}: {typescript_typename};"
type_code_line(fld) == [docs |-> fld.docs, name |-> fld.name, ty |-> typescript_typename(fld)]

\* write_field_type_and_schema: the line written to schema_code,
\* "  {name}: {zod_type},"
schema_code_line(fld) == [name |-> fld.name, zod |-> zod_type(fld)]

\* every field name collected
collect_opts_all(field_defs) == [i \in 1..Len(field_defs) |-> field_defs[i].name]
\* process_struct: the optional-field names collected in `opts`
collect_opts(field_defs) ==
    LET is_opt(fld) == fld.is_optional
        picked == SelectSeq(field_defs, is_opt)
    IN [i \in 1..Len(picked) |-> picked[i].name]

\* process_struct: `let show_opts = "";`
show_opts == <<>>

\* features/zod.rs show_optionals(opts)
show_optionals(opts) == IF opts = <<>> THEN <<>> ELSE <<>>

\* generate_ts_definition_method: the parts of the text ts_definition() formats
generate_ts_definition_method(docs, item_name, type_code, fields_empty) ==
    [docs |-> docs, item_name |-> item_name, type_code |-> type_code,
     fields_empty |-> fields_empty]

\* generate_zod_schema_method: the parts of
\* "export const {item_name}$Schema: ZodType<{item_name}> = z.strictObject({{\n{schema_code}\n}}){show_opts};"
generate_zod_schema_method(item_name, schema_code_lines, opts_suffix) ==
    [item_name |-> item_name, schema_code |-> schema_code_lines, show_opts |-> opts_suffix]

\* process_struct(item_struct): the methods of the emitted impl block
process_struct(item_struct) ==
    LET name == item_struct.ident
        rename_all == item_struct.rename_all
        item_name == safe_type_name(name)
        field_defs == [i \in 1..Len(item_struct.fields) |->
                          process_field(rename_all, item_struct.fields[i])]
    IN
    IF AnyPanic(field_defs) THEN FirstPanic(field_defs)
    ELSE
    LET type_code == [i \in 1..Len(field_defs) |-> type_code_line(field_defs[i])]
        schema_code_lines == [i \in 1..Len(field_defs) |-> schema_code_line(field_defs[i])]
        opts == collect_opts(field_defs)
        json_schema_fields == [i \in 1..Len(field_defs) |-> build_field_schema(field_defs[i])]
    IN
    IF AnyPanic(json_schema_fields) THEN FirstPanic(json_schema_fields)
    ELSE [kind |-> "struct",
          field_defs |-> field_defs,
          opts |-> opts,
          json_schema |-> generate_struct_json_schema_method(json_schema_fields),
          ts_definition |-> generate_ts_definition_method(
                                default_docs(name), item_name, type_code,
                                Len(json_schema_fields) = 0),
          zod_schema |-> generate_zod_schema_method(item_name, schema_code_lines, show_opts)]

(***************************************************************************)
(* model_schema.rs: enums                                                  *)
(***************************************************************************)
\* field_type.rs is_plain_enum: every variant is a unit variant
is_plain_enum(item_enum) ==
    \A i \in 1..Len(item_enum.variants) : item_enum.variants[i].style = "Unit"

\* the name left unquoted
Quoted_bare(v) == v
\* format!("\"{v}\"")
Quoted(v) == S_Quote \o v \o S_Quote

\* process_plain_enum(item_enum, name, rename_all, item_name)
process_plain_enum(item_enum, rename_all, item_name) ==
    LET enum_options == [i \in 1..Len(item_enum.variants) |->
                            get_final_name(item_enum.variants[i].ident,
                                           item_enum.variants[i].rename, rename_all)]
        quoted == [i \in 1..Len(enum_options) |-> Quoted(enum_options[i])]
        type_code == Join(quoted, <<" ", "|", " ">>)
        schema_code_text == Join(quoted, S_CommaSp)
        enumerated == enum_options
    IN [kind |-> "plain_enum",
        enum_members |-> enumerated,
        \* generate_plain_enum_json_schema_method: "enum" is Self::enum_members()
        json_schema |-> [type |-> "string", enum |-> enumerated],
        ts_definition |-> [docs |-> default_docs(item_enum.ident), item_name |-> item_name,
                           type_code |-> type_code],
        \* "export const {}$Schema: ZodType<{}> = z.enum([{}]);"
        zod_schema |-> [item_name |-> item_name, enum |-> schema_code_text]]

\* generate_variant_code: the fields whose schema statements are spliced into
\* the variant's JSON schema
json_schema_variant_fields(tag_name, field_defs) ==
    LET not_tag(fld) == fld.name # tag_name
        kept == SelectSeq(field_defs, not_tag)
    IN [i \in 1..Len(kept) |-> build_field_schema(kept[i])]

\* generate_variant_code: the value of the generated json_schema_variant block
json_schema_variant(tag_name, discriminator_value, variant_fields) ==
    LET tag_stmt == [key |-> tag_name,
                     value |-> [type |-> "string", const |-> discriminator_value],
                     required |-> <<tag_name>>]
        stmts == <<tag_stmt>> \o variant_fields
    IN [additionalProperties |-> JFalse,
        properties |-> run_properties(EmptyMap, stmts),
        required |-> run_required(<<>>, stmts)]

\* generate_variant_code(tag_name, discriminator_value, field_defs, discriminator_docs)
generate_variant_code(tag_name, discriminator_value, field_defs, discriminator_docs) ==
    LET \* "{  /**\n{docs}\n**/\n  {tag_name}: \"{discriminator_value}\";\n" then one
        \* "  /**\n{docs}\n**/\n  {name}: {type};" line per field, then "}"
        variant_type_code ==
            <<[docs |-> discriminator_docs, name |-> tag_name,
               ty |-> Quoted(discriminator_value)]>>
            \o [i \in 1..Len(field_defs) |-> type_code_line(field_defs[i])]
        \* "{\n  {tag_name}: z.literal(\"{discriminator_value}\"),\n" then one
        \* "  {name}: {zod_type}," line per field, then "}"
        variant_schema_code ==
            <<[name |-> tag_name,
               zod |-> S_z_literal_open \o discriminator_value \o S_z_literal_close]>>
            \o [i \in 1..Len(field_defs) |-> schema_code_line(field_defs[i])]
        optional_fields == collect_opts(field_defs)
        variant_fields == json_schema_variant_fields(tag_name, field_defs)
    IN IF AnyPanic(variant_fields) THEN FirstPanic(variant_fields)
       ELSE [variant_type_code |-> variant_type_code,
             variant_schema_code |-> variant_schema_code,
             optional_fields |-> optional_fields,
             json_schema_variant |->
                json_schema_variant(tag_name, discriminator_value, variant_fields)]

\* HashMap::insert over the variants in declaration order: the entry of a key
\* is the value of the last variant inserted under it
RECURSIVE insert_all(_, _)
insert_all(map, entries) ==
    IF entries = <<>> THEN map
    ELSE insert_all(MapInsert(map, Head(entries).key, Head(entries).value), Tail(entries))

\* the iteration orders a std HashMap can produce: every ordering of its keys
IterationOrders(map) ==
    LET keys == DOMAIN map
        n == Cardinality(keys)
    IN {order \in [1..n -> keys] : \A i, j \in 1..n : order[i] = order[j] => i = j}

\* process_discriminated_enum: the first loop, one entry per variant
variant_entry(rename_all, variant) ==
    LET final_name == get_final_name(variant.ident, variant.rename, rename_all)
        field_defs == [i \in 1..Len(variant.fields) |->
                          process_field(rename_all, variant.fields[i])]
        json_schema_fields == [i \in 1..Len(variant.fields) |->
                                  IF IsPanic(field_defs[i]) THEN field_defs[i]
                                  ELSE build_field_schema(field_defs[i])]
    IN IF AnyPanic(json_schema_fields) THEN FirstPanic(json_schema_fields)
       ELSE [key |-> final_name,
             value |-> [field_defs |-> field_defs, docs |-> default_docs(final_name)]]

\* process_discriminated_enum: the second loop, one generate_variant_code call
\* per key of the HashMap, in the order the HashMap is iterated
variant_codes(tag_name, discriminator_field_defs, order) ==
    [i \in 1..Len(order) |->
        generate_variant_code(tag_name, order[i],
                              discriminator_field_defs[order[i]].field_defs,
                              discriminator_field_defs[order[i]].docs)]

\* process_discriminated_enum: the three generated methods
discriminated_enum_output(item_enum, tag_name, item_name, codes) ==
    IF AnyPanic(codes) THEN FirstPanic(codes)
    ELSE [kind |-> "discriminated_enum",
          tag_name |-> tag_name,
          json_schema |-> [type |-> "object",
                           oneOf |-> [i \in 1..Len(codes) |-> codes[i].json_schema_variant]],
          \* type_code_items.join(" | ")
          ts_definition |-> [docs |-> default_docs(item_enum.ident), item_name |-> item_name,
                             type_code |-> [i \in 1..Len(codes) |-> codes[i].variant_type_code]],
          \* z.discriminatedUnion("{tag_name}", [z.strictObject({..}), ..])
          zod_schema |-> [item_name |-> item_name, discriminator |-> tag_name,
                          options |-> [i \in 1..Len(codes) |-> codes[i].variant_schema_code]]]

\* process_discriminated_enum after the first loop has produced its entries
discriminated_enum_of_entries(item_enum, tag_name, item_name, order, entries) ==
    IF AnyPanic(entries) THEN FirstPanic(entries)
    ELSE discriminated_enum_output(
            item_enum, tag_name, item_name,
            variant_codes(tag_name, insert_all(EmptyMap, entries), order))

\* process_discriminated_enum(item_enum, name, tag_name, rename_all, item_name),
\* with the order in which the HashMap of variants is iterated
process_discriminated_enum(item_enum, tag_name, rename_all, item_name, order) ==
    discriminated_enum_of_entries(
        item_enum, tag_name, item_name, order,
        [i \in 1..Len(item_enum.variants) |->
            variant_entry(rename_all, item_enum.variants[i])])

\* process_enum: the tag name, "type" unless #[serde(tag = ..)] names one
enum_tag_name(item_enum) == IF item_enum.tag.some THEN item_enum.tag.v ELSE S_type

\* the keys of the HashMap process_discriminated_enum fills
discriminator_keys(item_enum) ==
    {get_final_name(item_enum.variants[i].ident, item_enum.variants[i].rename,
                    item_enum.rename_all) : i \in 1..Len(item_enum.variants)}

(***************************************************************************)
(* The declarations handed to the macro (the parsed syn::Item and the      *)
(* attribute values its parsers return), drawn from bounded sets.          *)
(***************************************************************************)
\* #[serde(rename_all = "...")] values, or no attribute
RenameAlls ==
    {None, Some("camelCase"), Some("PascalCase"), Some("snake_case"),
     Some("SCREAMING_SNAKE_CASE"), Some("kebab-case"), Some("lowercase"),
     Some("UPPERCASE")}

\* identifiers: every non-empty name over NameChars up to MaxNameLen, and user_id
NameChars == {"a", "B", "_"}
RawNames == (SeqsUpTo(NameChars, MaxNameLen) \ {<<>>}) \cup {N_user_id}

\* #[serde(rename = "...")] values, or no attribute
FieldRenames == {None, Some(N_emailAddress), Some(N_dataJson)}

NameItems ==
    [kind : {"name"}, name : RawNames, field_rename : FieldRenames, rename_all : RenameAlls]

\* field types
T_String == TypePath(I_String)
T_u32 == TypePath(I_u32)
T_Option(t) == TypeGeneric(I_Option, <<t>>)
T_Vec(t) == TypeGeneric(I_Vec, <<t>>)
T_HashMap(k, v) == TypeGeneric(I_HashMap, <<k, v>>)

BareTypes ==
    {TypePath(i) : i \in {I_String, I_u32, I_f64, I_bool, I_ObjectId, I_Address, I_AddressJson}}

WrappedTypes ==
    UNION {{T_Option(t), T_Vec(t), T_Option(T_Vec(t)), T_Vec(T_Option(t)),
            T_HashMap(T_String, t), T_HashMap(T_String, T_Vec(t)),
            T_Vec(T_HashMap(T_String, t)), T_Option(T_Vec(T_HashMap(T_String, t)))}
           : t \in BareTypes}

OtherTypes ==
    {T_Vec(T_Vec(T_String)),
     T_Option(T_Option(T_String)),
     T_HashMap(TypePath(I_Status), TypePath(I_Address)),
     T_HashMap(TypePath(I_Status), T_String),
     T_HashMap(T_u32, T_String),
     T_HashMap(T_String, T_HashMap(T_String, T_u32)),
     T_Option(T_Vec(TypeTuple(<<T_String, T_u32>>))),
     TypeTuple(<<T_String, T_u32>>),
     TypeGeneric(I_Box, <<T_String>>),
     TypeGeneric(I_HashSet, <<T_String>>),
     TypeGeneric(I_BTreeMap, <<T_String, T_u32>>),
     TypeGeneric(I_Address, <<>>),
     TypeArray(T_u32),
     TypeSlice(T_String),
     TypeReference(T_String),
     T_Option(TypeOther),
     TypeOther}

FieldTypes == BareTypes \cup WrappedTypes \cup OtherTypes

\* #[model_schema_prop(..)] values as parsed, or no attribute
NoProp == ModelSchemaPropMeta(None, None, None)
Props ==
    {NoProp,
     ModelSchemaPropMeta(None, Some(N_fixed), None),
     ModelSchemaPropMeta(None, None, Some(1)),
     ModelSchemaPropMeta(None, Some(N_fixed), Some(1)),
     ModelSchemaPropMeta(Some(I_String), None, Some(1))}

FieldOf(ident, ty, rename, prop) == [ident |-> ident, ty |-> ty, rename |-> rename, prop |-> prop]

\* any single field
AnyFields ==
    {FieldOf(ident, ty, rename, prop) :
        ident \in {N_user_id, N_dataJson}, ty \in FieldTypes,
        rename \in {None, Some(N_emailAddress), Some(N_e_mail)}, prop \in Props}

\* the fields records of several fields are built from
CoreFields ==
    {FieldOf(N_id, T_String, None, NoProp),
     FieldOf(N_age, T_Option(T_u32), None, NoProp),
     FieldOf(N_tags, T_Vec(T_String), None, NoProp),
     FieldOf(N_user_id, T_Option(T_Vec(T_String)), None, NoProp),
     FieldOf(N_dataJson, TypePath(I_AddressJson), None, NoProp),
     FieldOf(N_kind, T_Option(T_String), Some(N_emailAddress), NoProp)}

DistinctIdents(fields) ==
    \A i, j \in 1..Len(fields) : fields[i].ident = fields[j].ident => i = j

StructRenameAlls == {None, Some("camelCase")}

\* the names records are declared under
StructIdents == {E_User, I_AddressJson}

StructItems ==
    [kind : {"struct"}, ident : StructIdents, rename_all : StructRenameAlls,
     fields : {fs \in SeqsUpTo(CoreFields, MaxFields) : DistinctIdents(fs)}
              \cup {<<f>> : f \in AnyFields}]

\* enum variants: unit variants and variants with named fields
VariantOf(ident, rename, style, fields) ==
    [ident |-> ident, rename |-> rename, style |-> style, fields |-> fields]

VariantBodies ==
    {[style |-> "Unit", fields |-> <<>>],
     [style |-> "Named", fields |-> <<FieldOf(N_user_id, T_String, None, NoProp)>>],
     [style |-> "Named", fields |-> <<FieldOf(N_kind, T_u32, None, NoProp),
                                      FieldOf(N_age, T_Option(T_u32), None, NoProp)>>],
     [style |-> "Named", fields |-> <<FieldOf(N_kind, T_Option(T_u32), None, NoProp)>>]}

Variants ==
    {VariantOf(ident, rename, body.style, body.fields) :
        ident \in {V_Ab, V_AB, N_user_id}, rename \in {None, Some(V_ab)},
        body \in VariantBodies}

EnumRenameAlls == {None, Some("camelCase"), Some("lowercase"), Some("UPPERCASE")}

EnumItems ==
    [kind : {"enum"}, ident : {E_EventJson}, rename_all : EnumRenameAlls,
     tag : {None, Some(N_kind)},
     variants : {vs \in SeqsUpTo(Variants, MaxVariants) : vs # <<>> /\ DistinctIdents(vs)}]

\* any other syn::Item (a function, a module, ..)
OtherItems == {[kind |-> "other"]}

\* input tokens that are no syn::Item, with the error the parser reports
\* (its text writes the comma between backquotes): the declaration
\* struct User { user_id: Box(String) }, whose field type the parser ends
\* at Box
UnparsedInputs == {[kind |-> "tokens", error |-> "expected ,"]}

Items == NameItems \cup StructItems \cup EnumItems \cup OtherItems \cup UnparsedInputs

(***************************************************************************)
(* The state machine: one declaration is parsed (Init), then expanded by   *)
(* the handler exec_model_schema dispatches to.                            *)
(***************************************************************************)
NoOutput == [kind |-> "none"]

Init ==
    /\ item \in Items
    /\ out = NoOutput
    /\ pc = "parsed"

Finish(result) ==
    /\ out' = result
    /\ pc' = IF IsPanic(result) THEN "panicked" ELSE "expanded"
    /\ UNCHANGED item

\* exec_model_schema, Item::Struct
ExecStruct ==
    /\ pc = "parsed"
    /\ item.kind = "struct"
    /\ Finish(process_struct(item))

\* exec_model_schema, Item::Enum, process_enum with is_plain_enum
ExecPlainEnum ==
    /\ pc = "parsed"
    /\ item.kind = "enum"
    /\ is_plain_enum(item)
    /\ Finish(process_plain_enum(item, item.rename_all, safe_type_name(item.ident)))

\* exec_model_schema, Item::Enum, process_enum otherwise
ExecDiscriminatedEnum ==
    /\ pc = "parsed"
    /\ item.kind = "enum"
    /\ ~is_plain_enum(item)
    /\ \E order \in IterationOrders([k \in discriminator_keys(item) |-> TRUE]) :
          Finish(process_discriminated_enum(item, enum_tag_name(item), item.rename_all,
                                            safe_type_name(item.ident), order))

\* exec_model_schema, any other item
ExecUnsupported ==
    /\ pc = "parsed"
    /\ item.kind = "other"
    /\ Finish(Panic("Unsupported target for model_schema"))

\* exec_model_schema, parse_macro_input! fails: the macro returns the
\* compile_error! of the parser's error and calls no handler
ExecParseError ==
    /\ pc = "parsed"
    /\ item.kind = "tokens"
    /\ Finish([kind |-> "compile_error", error |-> item.error])

\* get_final_name applied to one name
ResolveName ==
    /\ pc = "parsed"
    /\ item.kind = "name"
    /\ Finish([kind |-> "name",
               final_name |-> get_final_name(item.name, item.field_rename, item.rename_all)])

Next ==
    \/ ExecStruct
    \/ ExecPlainEnum
    \/ ExecDiscriminatedEnum
    \/ ExecUnsupported
    \/ ExecParseError
    \/ ResolveName

Spec == Init /\ [][Next]_vars

(***************************************************************************)
(* Properties of the emitted outputs                                       *)
(***************************************************************************)
StructExpanded == pc = "expanded" /\ out.kind = "struct"
EnumExpanded == pc = "expanded" /\ out.kind = "discriminated_enum"
NameResolved == pc = "expanded" /\ out.kind = "name"

\* the names of the fields of a record with the given is_optional, in
\* declaration order
NamesWithOptional(field_defs, optional) ==
    LET pick(fld) == fld.is_optional = optional
        picked == SelectSeq(field_defs, pick)
    IN [i \in 1..Len(picked) |-> picked[i].name]

\* C1: the JSON Schema of a record lists in `required` exactly the names of
\* the fields whose is_optional is false, one entry per such field, in
\* declaration order, so its length is the number of non-optional fields.
C1_RequiredListsNonOptional ==
    StructExpanded =>
        /\ out.json_schema.required = NamesWithOptional(out.field_defs, FALSE)
        /\ Len(out.json_schema.required)
             = Cardinality({i \in 1..Len(out.field_defs) : ~out.field_defs[i].is_optional})

\* a record of three fields, the middle one optional, has been expanded
C1_Witness ==
    /\ StructExpanded
    /\ Len(out.field_defs) = 3
    /\ ~out.field_defs[1].is_optional
    /\ out.field_defs[2].is_optional
    /\ ~out.field_defs[3].is_optional
    /\ out.json_schema.required = <<out.field_defs[1].name, out.field_defs[3].name>>

\* C2: the static-type text of every field of a record ends with
\* " | undefined" if and only if the field's is_optional is true.
C2_UndefinedSuffixIffOptional ==
    StructExpanded =>
        \A i \in 1..Len(out.field_defs) :
            EndsWith(out.ts_definition.type_code[i].ty, S_OrUndefined)
                <=> out.field_defs[i].is_optional

\* a record with an optional field whose text carries the marker and a
\* non-optional array field whose text does not has been expanded
C2_Witness ==
    /\ StructExpanded
    /\ \E i, j \in 1..Len(out.field_defs) :
          /\ out.field_defs[i].is_optional
          /\ EndsWith(out.ts_definition.type_code[i].ty, S_OrUndefined)
          /\ ~out.field_defs[j].is_optional
          /\ out.field_defs[j].is_array
          /\ ~EndsWith(out.ts_definition.type_code[j].ty, S_OrUndefined)

\* the JSON-Schema property emitted under a field's name
PropertyOf(fld) == out.json_schema.properties[fld.name]

\* C3: every field of a record with is_array and is_optional both true,
\* whatever its shape, has a static-type text of the form
\* "Array<T> | undefined", a JSON-Schema property {type: "array", items: ..},
\* and a name absent from `required`.
C3_OptionalArrayEverywhere ==
    StructExpanded =>
        \A i \in 1..Len(out.field_defs) :
            LET fld == out.field_defs[i]
                ty == out.ts_definition.type_code[i].ty
            IN (fld.is_array /\ fld.is_optional) =>
                  /\ StartsWith(ty, S_ArrayOpen)
                  /\ EndsWith(ty, S_Gt \o S_OrUndefined)
                  /\ "type" \in DOMAIN PropertyOf(fld)
                  /\ PropertyOf(fld).type = "array"
                  /\ "items" \in DOMAIN PropertyOf(fld)
                  /\ \A k \in 1..Len(out.json_schema.required) :
                        out.json_schema.required[k] # fld.name

\* the resolved name of a variant as serde resolves it: the explicit rename,
\* otherwise the container convention applied to the identifier
ConventionName(ident, rename, rename_all) ==
    IF rename.some THEN rename.v
    ELSE IF rename_all = Some("camelCase") THEN snake_to_camel(ident)
    ELSE IF rename_all = Some("lowercase") THEN to_lowercase(ident)
    ELSE IF rename_all = Some("UPPERCASE") THEN to_uppercase(ident)
    ELSE ident

\* C4: for every enum compiled as a discriminated union, whatever its
\* variant names and renames, the JSON-Schema `oneOf` has as many entries as
\* the enum declares variants.
C4_OneOfLengthIsVariantCount ==
    EnumExpanded => Len(out.json_schema.oneOf) = Len(item.variants)

\* C5: in the JSON Schema of a discriminated union every variant schema
\* requires the tag field and constrains it to {type: "string", const: v},
\* v being the variant's resolved name: its explicit rename, otherwise the
\* container convention applied to its identifier.
C5_TagConstIsResolvedName ==
    EnumExpanded =>
        /\ \A i \in 1..Len(out.json_schema.oneOf) :
              LET variant_schema == out.json_schema.oneOf[i]
              IN /\ \E k \in 1..Len(variant_schema.required) :
                       variant_schema.required[k] = out.tag_name
                 /\ out.tag_name \in DOMAIN variant_schema.properties
                 /\ \E j \in 1..Len(item.variants) :
                       variant_schema.properties[out.tag_name]
                         = [type |-> "string",
                            const |-> ConventionName(item.variants[j].ident,
                                                     item.variants[j].rename,
                                                     item.rename_all)]
        /\ \A j \in 1..Len(item.variants) :
              \E i \in 1..Len(out.json_schema.oneOf) :
                  out.tag_name \in DOMAIN out.json_schema.oneOf[i].properties
                  /\ out.json_schema.oneOf[i].properties[out.tag_name]
                       = [type |-> "string",
                          const |-> ConventionName(item.variants[j].ident,
                                                   item.variants[j].rename,
                                                   item.rename_all)]

\* the schema of one element of a field: the `items` of the property of an
\* array field, the property itself otherwise
ElementSchemaOf(fld) == IF fld.is_array THEN PropertyOf(fld).items ELSE PropertyOf(fld)

S_dot_min == <<".", "m", "i", "n", "(">>

\* C6: a field carrying both a literal override and a min_length takes the
\* literal: its shape is StringLiteral(literal), the schema of the field (of
\* its items when the field is an array) is {type: "string", const: literal}
\* with no minLength, and its validator is z.literal("literal") with no .min(.
C6_LiteralWinsOverMinLength ==
    StructExpanded =>
        \A i \in 1..Len(item.fields) :
            LET prop == item.fields[i].prop
                fld == out.field_defs[i]
                zod == out.zod_schema.schema_code[i].zod
            IN (prop.literal.some /\ prop.min_length.some) =>
                  /\ fld.field_type = StringLiteral(prop.literal.v)
                  /\ ElementSchemaOf(fld) = [type |-> "string", const |-> prop.literal.v]
                  /\ "minLength" \notin DOMAIN PropertyOf(fld)
                  /\ Contains(zod, S_z_literal_open \o prop.literal.v \o S_z_literal_close)
                  /\ ~Contains(zod, S_dot_min)

\* a record whose String field carries literal "fixed" and min_length 1 has
\* been expanded, with the const in its schema
C6_Witness ==
    /\ StructExpanded
    /\ Len(item.fields) = 1
    /\ item.fields[1].ty = T_String
    /\ item.fields[1].prop = ModelSchemaPropMeta(None, Some(N_fixed), Some(1))
    /\ PropertyOf(out.field_defs[1]) = [type |-> "string", const |-> N_fixed]

\* C7: name resolution returns an explicit rename unchanged, for every
\* container convention (none included) and every raw name.
C7_ExplicitRenameUnchanged ==
    (NameResolved /\ item.field_rename.some) => out.final_name = item.field_rename.v

\* user_id renamed to emailAddress under camelCase has been resolved
C7_Witness ==
    /\ NameResolved
    /\ item.name = N_user_id
    /\ item.rename_all = Some("camelCase")
    /\ item.field_rename = Some(N_emailAddress)
    /\ out.final_name = N_emailAddress

\* C8 as stated: the emitted validator of every record carries a collection
\* naming exactly the fields with is_optional true.
C8_ValidatorCarriesOptionalNames ==
    StructExpanded =>
        \A i \in 1..Len(out.field_defs) :
            out.field_defs[i].is_optional
                <=> Contains(out.zod_schema.show_opts, out.field_defs[i].name)

\* C8 amended: the compiler collects exactly the names of the fields with
\* is_optional true, in declaration order (the fields whose names are not
\* pushed onto `required`), but the text it appends to the emitted validator
\* is empty: the validator carries no such collection.
C8_OptsCollectedButNotEmitted ==
    StructExpanded =>
        /\ out.opts = NamesWithOptional(out.field_defs, TRUE)
        /\ Len(out.opts) + Len(out.json_schema.required) = Len(out.field_defs)
        /\ out.zod_schema.show_opts = <<>>

\* the record id, age (optional), tags has been expanded: age is collected
C8_Witness ==
    /\ StructExpanded
    /\ Len(out.field_defs) = 3
    /\ out.field_defs[1].name = N_id
    /\ out.field_defs[3].name = N_tags
    /\ out.opts = <<N_age>>
    /\ out.json_schema.required = <<N_id, N_tags>>

\* the placements of the ObjectId type: bare, in Vec, in Option, as HashMap value
T_ObjectId == TypePath(I_ObjectId)
ObjectIdPlacements ==
    {T_ObjectId, T_Vec(T_ObjectId), T_Option(T_ObjectId), T_HashMap(T_String, T_ObjectId)}

S_oid == <<"$", "o", "i", "d">>

\* the one-field wrapper object around "$oid" with the 24-hex-character pattern
ObjectIdWrapperSchema ==
    [type |-> "object",
     properties |-> ("$oid" :> [type |-> "string", pattern |-> "^[a-fA-F0-9]{24}$"]),
     required |-> <<"$oid">>,
     additionalProperties |-> JFalse]

\* the schema is the wrapper, or holds it as its items or as its map values
HoldsObjectIdWrapper(schema) ==
    \/ schema = ObjectIdWrapperSchema
    \/ "items" \in DOMAIN schema /\ schema.items = ObjectIdWrapperSchema
    \/ "additionalProperties" \in DOMAIN schema
       /\ schema.additionalProperties = ObjectIdWrapperSchema

\* C9: a field whose type is ObjectId (bare, in Vec, in Option or as a
\* HashMap value) is rendered in the static type, the validator and the JSON
\* Schema as the one-field wrapper around "$oid" with the 24-hex pattern.
C9_ObjectIdIsOidWrapper ==
    StructExpanded =>
        \A i \in 1..Len(item.fields) :
            (item.fields[i].ty \in ObjectIdPlacements /\ item.fields[i].prop = NoProp) =>
                /\ Contains(out.ts_definition.type_code[i].ty, S_oid)
                /\ Contains(out.zod_schema.schema_code[i].zod, S_oid)
                /\ HoldsObjectIdWrapper(PropertyOf(out.field_defs[i]))

\* the name with its underscores removed
WithoutUnderscores(name) ==
    LET kept(c) == c # "_"
    IN SelectSeq(name, kept)

\* C10: under camelCase with no explicit rename the resolved name is the raw
\* name with the first character lower-cased, the underscores removed and the
\* character after each underscore upper-cased, for every raw name; it has no
\* underscore and does not start with an upper-case letter; user_id gives
\* userId.
C10_CamelCaseShape ==
    (NameResolved /\ item.rename_all = Some("camelCase") /\ ~item.field_rename.some) =>
        /\ to_lowercase(out.final_name) = to_lowercase(WithoutUnderscores(item.name))
        /\ ~ContainsChar(out.final_name, "_")
        /\ out.final_name # <<>> => ~IsUpperChar(out.final_name[1])
        /\ item.name = N_user_id => out.final_name = <<"u", "s", "e", "r", "I", "d">>

\* every "_" replaced by "-"
UnderscoresToDashes(name) == [i \in 1..Len(name) |-> IF name[i] = "_" THEN "-" ELSE name[i]]

\* the first character upper-cased
UpperFirst(name) == IF name = <<>> THEN name ELSE <<ToUpperChar(name[1])>> \o Tail(name)

\* the container convention applied to a raw name, as serde defines it
AppliedConvention(name, rename_all) ==
    CASE rename_all = Some("PascalCase") -> UpperFirst(snake_to_camel(name))
      [] rename_all = Some("kebab-case") -> UnderscoresToDashes(name)
      [] rename_all = Some("lowercase") -> to_lowercase(name)
      [] rename_all = Some("UPPERCASE") -> to_uppercase(name)
      [] rename_all = Some("SCREAMING_SNAKE_CASE") -> to_uppercase(name)
      [] OTHER -> name

\* C11: with no explicit rename the resolver applies the container
\* convention: PascalCase is the camelCase form with the first character
\* upper-cased, snake_case and no convention keep the raw name, kebab-case
\* replaces "_" by "-", lowercase lower-cases, UPPERCASE and
\* SCREAMING_SNAKE_CASE upper-case.
C11_EveryConventionApplied ==
    (NameResolved /\ ~item.field_rename.some /\ item.rename_all # Some("camelCase")) =>
        out.final_name = AppliedConvention(item.name, item.rename_all)

\* a field of string shape: resolved to String, no literal override
IsStringField(i) ==
    /\ out.field_defs[i].field_type.t = "String"
    /\ ~item.fields[i].prop.literal.some

\* C12: a string-shaped field with min_length = N and no literal override
\* has minLength: N next to type: "string" in its JSON Schema (on the
\* property, or on `items` for an array field); a string field without
\* min_length has no minLength.
C12_MinLengthInJsonSchema ==
    StructExpanded =>
        \A i \in 1..Len(item.fields) :
            IsStringField(i) =>
                LET min_length == item.fields[i].prop.min_length
                    schema == ElementSchemaOf(out.field_defs[i])
                IN IF min_length.some
                   THEN schema = [type |-> "string", minLength |-> min_length.v]
                   ELSE schema = [type |-> "string"]

\* "z.string().min(N)"
ZodStringMin(n) == S_z_string \o S_dot_min \o FormatIndex(n) \o S_ParenClose

\* the array wrap, then the optional wrap of the documented pipeline
ZodPipeline(fld, shape_validator) ==
    LET arrayed == IF fld.is_array THEN S_z_array_open \o shape_validator \o S_ParenClose
                   ELSE shape_validator
    IN IF fld.is_optional THEN arrayed \o S_or_z_undefined ELSE arrayed

\* C13: the validator of a string-shaped field with min_length = N is
\* z.string().min(N), wrapped in z.array(..) for an array field and followed
\* by .or(z.undefined()) for an optional field.
C13_MinLengthInValidator ==
    StructExpanded =>
        \A i \in 1..Len(item.fields) :
            (IsStringField(i) /\ item.fields[i].prop.min_length.some) =>
                out.zod_schema.schema_code[i].zod
                  = ZodPipeline(out.field_defs[i], ZodStringMin(item.fields[i].prop.min_length.v))

\* C14: every field's validator is the shape's validator, inside z.array(..)
\* if is_array, followed by .or(z.undefined()) if is_optional: the validator
\* of every optional field ends in .or(z.undefined()), and that of an
\* optional array field is z.array(X).or(z.undefined()).
C14_ValidatorPipeline ==
    StructExpanded =>
        \A i \in 1..Len(out.field_defs) :
            LET fld == out.field_defs[i]
                zod == out.zod_schema.schema_code[i].zod
            IN /\ fld.is_optional <=> EndsWith(zod, S_or_z_undefined)
               /\ fld.is_array => StartsWith(zod, S_z_array_open)
               /\ (fld.is_array /\ fld.is_optional) =>
                     EndsWith(zod, S_ParenClose \o S_or_z_undefined)

PlainEnumExpanded == pc = "expanded" /\ out.kind = "plain_enum"

\* the names name resolution returns for the variants, in declaration order
ResolvedVariantNames ==
    [i \in 1..Len(item.variants) |->
        get_final_name(item.variants[i].ident, item.variants[i].rename, item.rename_all)]

\* the names between double quotes, joined by a separator
QuotedList(names, sep) ==
    Join([i \in 1..Len(names) |-> S_Quote \o names[i] \o S_Quote], sep)

\* C15: for a plain enum the static-type union of quoted literals, the
\* z.enum([..]) validator, the JSON-Schema `enum` array and enum_members()
\* list the same resolved variant names, one per declared variant, in
\* declaration order.
C15_PlainEnumOutputsAgree ==
    PlainEnumExpanded =>
        /\ out.enum_members = ResolvedVariantNames
        /\ Len(out.enum_members) = Len(item.variants)
        /\ out.json_schema.enum = out.enum_members
        /\ out.ts_definition.type_code = QuotedList(out.enum_members, <<" ", "|", " ">>)
        /\ out.zod_schema.enum = QuotedList(out.enum_members, S_CommaSp)

\* a plain enum of two variants, the first renamed, has been expanded
C15_Witness ==
    /\ PlainEnumExpanded
    /\ Len(item.variants) = 2
    /\ item.variants[1].rename = Some(V_ab)
    /\ ~item.variants[2].rename.some
    /\ item.rename_all = Some("camelCase")
    /\ out.enum_members = <<V_ab, <<"a", "B">>>>

\* the type names of the primitive lookup table
PrimitiveIdents ==
    {I_bool, I_String, I_u8, I_u16, I_u32, I_u64, I_i8, I_i16, I_i32, I_i64,
     I_usize, I_isize, I_f32, I_f64}

\* the field is declared with a bare named non-primitive type and no literal
IsBareNamedField(i) ==
    /\ item.fields[i].ty.k = "Path"
    /\ item.fields[i].ty.arguments.a = "None"
    /\ item.fields[i].ty.ident \notin PrimitiveIdents
    /\ ~item.fields[i].prop.literal.some

\* the name with one trailing "Json" removed
WithoutJsonSuffix(name) ==
    IF Len(name) >= 4 /\ SubSeq(name, Len(name) - 3, Len(name)) = <<"J", "s", "o", "n">>
    THEN SubSeq(name, 1, Len(name) - 4)
    ELSE name

\* C16: a field of a bare named non-primitive type is emitted in the static
\* type as the type name with one trailing "Json" removed and in the
\* validator as that name followed by "$Schema"; a declaration of that name
\* exports its own type and schema under the same stripped name.
C16_ReferenceNameStripped ==
    StructExpanded =>
        \A i \in 1..Len(item.fields) :
            IsBareNamedField(i) =>
                LET stripped == WithoutJsonSuffix(item.fields[i].ty.ident)
                IN /\ out.ts_definition.type_code[i].ty = stripped
                   /\ out.zod_schema.schema_code[i].zod = stripped \o S_DollarSchema
                   /\ item.ident = item.fields[i].ty.ident =>
                         /\ out.ts_definition.item_name = stripped
                         /\ out.zod_schema.item_name = stripped

\* the record AddressJson with a field of type AddressJson has been expanded
C16_Witness ==
    /\ StructExpanded
    /\ item.ident = I_AddressJson
    /\ Len(item.fields) = 1
    /\ item.fields[1].ty = TypePath(I_AddressJson)
    /\ item.fields[1].prop = NoProp
    /\ out.ts_definition.type_code[1].ty = I_Address
    /\ out.ts_definition.item_name = I_Address

\* C17: for a field whose shape is a Reference without type arguments to a
\* type declared under the raw name N, the JSON Schema delegates to
\* N::json_schema(), N being the identifier as written, whether or not N ends
\* in "Json".
C17_JsonSchemaDelegatesToDeclaredName ==
    StructExpanded =>
        \A i \in 1..Len(item.fields) :
            IsBareNamedField(i) =>
                PropertyOf(out.field_defs[i]) = JsonSchemaCall(item.fields[i].ty.ident)

\* the field is a map with a string key (not an array of maps)
IsStringKeyMap(fld) ==
    /\ fld.field_type.t = "Map"
    /\ fld.field_type.key.field_type.t = "String"
    /\ ~fld.is_array

\* the { "type": .. } schema of a primitive shape
TypeSchemaOf(ft) ==
    IF ft.t = "String" THEN [type |-> "string"]
    ELSE IF ft.t = "Boolean" THEN [type |-> "boolean"]
    ELSE IF ft.t \in FloatKinds THEN [type |-> "number"]
    ELSE [type |-> "integer"]

\* C18: the JSON Schema of a Map field with a string key is
\* {type: "object", additionalProperties: S}: S is {type: ..} for a primitive
\* value, {type: "array", items: {type: ..}} for an array of primitives, and
\* true for a value shape the emitter does not describe (a named type, an
\* array of a named type, a nested map).
C18_StringKeyMapSchema ==
    StructExpanded =>
        \A i \in 1..Len(out.field_defs) :
            LET fld == out.field_defs[i]
                value == fld.field_type.value
                schema == PropertyOf(fld)
            IN IsStringKeyMap(fld) =>
                  /\ DOMAIN schema = {"type", "additionalProperties"}
                  /\ schema.type = "object"
                  /\ schema.additionalProperties =
                        IF IsPrimitive(value.field_type)
                        THEN IF value.is_array
                             THEN [type |-> "array", items |-> TypeSchemaOf(value.field_type)]
                             ELSE TypeSchemaOf(value.field_type)
                        ELSE JTrue

\* a record with a HashMap<String, Vec<u32>> field has been expanded
C18_Witness ==
    /\ StructExpanded
    /\ Len(item.fields) = 1
    /\ item.fields[1].ty = T_HashMap(T_String, T_Vec(T_u32))
    /\ item.fields[1].prop = NoProp
    /\ PropertyOf(out.field_defs[1])
         = [type |-> "object",
            additionalProperties |-> [type |-> "array", items |-> [type |-> "integer"]]]

\* the field is declared as a HashMap whose key is a bare named
\* non-primitive type, with no literal override
IsEnumKeyMapField(i) ==
    /\ item.fields[i].ty.k = "Path"
    /\ item.fields[i].ty.ident = I_HashMap
    /\ item.fields[i].ty.arguments.a = "AngleBracketed"
    /\ Len(item.fields[i].ty.arguments.args) = 2
    /\ item.fields[i].ty.arguments.args[1].k = "Path"
    /\ item.fields[i].ty.arguments.args[1].arguments.a = "None"
    /\ item.fields[i].ty.arguments.args[1].ident \notin PrimitiveIdents
    /\ ~item.fields[i].prop.literal.some

\* C19: a Map field whose key is a named type without type arguments gets a
\* closed object schema (additionalProperties false, one property per value
\* of the key type's enum_members(), each mapped to the value's schema) for
\* every value shape: primitive, array, reference, map.
C19_EnumKeyMapClosedObject ==
    (item.kind = "struct" /\ pc # "parsed"
     /\ \E i \in 1..Len(item.fields) : IsEnumKeyMapField(i)) =>
        /\ pc = "expanded"
        /\ \A i \in 1..Len(item.fields) :
              IsEnumKeyMapField(i) =>
                  LET schema == PropertyOf(out.field_defs[i])
                  IN /\ "additionalProperties" \in DOMAIN schema
                     /\ schema.additionalProperties = JFalse
                     /\ "properties" \in DOMAIN schema
                     /\ schema.properties.for_each.call = "enum_members"

\* the strings a panic message carries after its fixed text; the values the
\* unsupported-shape panics print with Debug are the type arguments'
\* definitions, whose names are empty, so a field name can only be among
\* the strings
ReportedTexts(p) ==
    IF "texts" \in DOMAIN p THEN {p.texts[k] : k \in 1..Len(p.texts)} ELSE {}

\* the field's declared type is a generic with type arguments whose name and
\* arity are none of Option<_>, Vec<_>, HashMap<_, _>, and the field has no
\* literal or type override; a parenthesized path is no field type the
\* parser accepts, so no parsed record has one
IsUnsupportedShapeField(i) ==
    LET ty == item.fields[i].ty IN
    /\ ty.k = "Path"
    /\ ty.arguments.a = "AngleBracketed"
    /\ Len(ty.arguments.args) >= 1
    /\ ~(ty.ident \in {I_Option, I_Vec} /\ Len(ty.arguments.args) = 1)
    /\ ~(ty.ident = I_HashMap /\ Len(ty.arguments.args) = 2)
    /\ item.fields[i].prop = NoProp

\* C20: a record with a field of an unsupported shape is not expanded: the
\* macro aborts, and the message carries the field's name and the name of the
\* offending type.
C20_UnsupportedShapeReported ==
    (item.kind = "struct" /\ pc # "parsed"
     /\ \E i \in 1..Len(item.fields) : IsUnsupportedShapeField(i)) =>
        /\ pc = "panicked"
        /\ \E i \in 1..Len(item.fields) :
              /\ IsUnsupportedShapeField(i)
              /\ item.fields[i].ident \in ReportedTexts(out)
              /\ item.fields[i].ty.ident \in ReportedTexts(out)

\* the variants of the enum resolve to pairwise distinct names
DistinctVariantNames ==
    \A i, j \in 1..Len(item.variants) :
        ResolvedVariantNames[i] = ResolvedVariantNames[j] => i = j

\* C21: the records of a discriminated union appear in the enum's declaration
\* order in the static-type union, in the z.discriminatedUnion list and in
\* the JSON-Schema oneOf: the i-th record of each carries the tag of the i-th
\* declared variant, so the outputs of every compilation are the same.
C21_VariantsInDeclarationOrder ==
    (EnumExpanded /\ DistinctVariantNames) =>
        \A i \in 1..Len(item.variants) :
            /\ out.ts_definition.type_code[i][1].ty = Quoted(ResolvedVariantNames[i])
            /\ out.zod_schema.options[i][1].zod
                 = S_z_literal_open \o ResolvedVariantNames[i] \o S_z_literal_close
            /\ out.json_schema.oneOf[i].properties[out.tag_name]
                 = [type |-> "string", const |-> ResolvedVariantNames[i]]

\* the field's declared type is Option<Vec<T>> or Vec<Option<T>>
IsOptionOfVec(ty) ==
    /\ ty.k = "Path" /\ ty.arguments.a = "AngleBracketed" /\ ty.ident = I_Option
    /\ Len(ty.arguments.args) = 1
    /\ ty.arguments.args[1].k = "Path"
    /\ ty.arguments.args[1].arguments.a = "AngleBracketed"
    /\ ty.arguments.args[1].ident = I_Vec
    /\ Len(ty.arguments.args[1].arguments.args) = 1
IsVecOfOption(ty) ==
    /\ ty.k = "Path" /\ ty.arguments.a = "AngleBracketed" /\ ty.ident = I_Vec
    /\ Len(ty.arguments.args) = 1
    /\ ty.arguments.args[1].k = "Path"
    /\ ty.arguments.args[1].arguments.a = "AngleBracketed"
    /\ ty.arguments.args[1].ident = I_Option
    /\ Len(ty.arguments.args[1].arguments.args) = 1
\* T of Option<Vec<T>> or Vec<Option<T>>
InnermostOf(ty) == ty.arguments.args[1].arguments.args[1]
\* Option<Vec<T>> for Vec<Option<T>> and the reverse
SwappedWrapping(ty) ==
    IF ty.ident = I_Option THEN T_Vec(T_Option(InnermostOf(ty)))
    ELSE T_Option(T_Vec(InnermostOf(ty)))

\* C22: a field declared Option<Vec<T>> and the same field declared
\* Vec<Option<T>> resolve to one FieldDef, the shape of T with is_array and
\* is_optional both true, and get the same static-type and validator lines.
C22_OptionVecCommute ==
    StructExpanded =>
        \A i \in 1..Len(item.fields) :
            (IsOptionOfVec(item.fields[i].ty) \/ IsVecOfOption(item.fields[i].ty)) =>
                LET swapped == process_field(item.rename_all,
                                   [item.fields[i] EXCEPT !.ty = SwappedWrapping(@)])
                    \* T resolved as a type argument, then the field's override
                    inner == [field_type |->
                                overridden_field_type(
                                    get_field_def(<<>>, InnermostOf(item.fields[i].ty),
                                                  <<>>).field_type,
                                    out.field_defs[i].model_schema_prop_meta)]
                IN /\ out.field_defs[i] = swapped
                   /\ out.field_defs[i].is_array
                   /\ out.field_defs[i].is_optional
                   /\ out.field_defs[i].field_type = inner.field_type
                   /\ out.ts_definition.type_code[i] = type_code_line(swapped)
                   /\ out.zod_schema.schema_code[i] = schema_code_line(swapped)

\* a record with a Vec<Option<u32>> field has been expanded
C22_Witness ==
    /\ StructExpanded
    /\ \E i \in 1..Len(item.fields) :
          /\ item.fields[i].ty = T_Vec(T_Option(T_u32))
          /\ out.field_defs[i].is_array
          /\ out.field_defs[i].is_optional
          /\ out.field_defs[i].field_type = Primitive("U32")

\* no other field of the expanded record has the name of field i
NameUniqueAt(i) ==
    \A j \in 1..Len(out.field_defs) : out.field_defs[j].name = out.field_defs[i].name => j = i

\* C23: the JSON-Schema property of every field with is_array true is
\* {type: "array", items: s}, s being the schema the same shape gets when
\* the field is not an array, for every shape.
C23_ArrayPropertyWrapsShape ==
    StructExpanded =>
        \A i \in 1..Len(out.field_defs) :
            (out.field_defs[i].is_array /\ NameUniqueAt(i)) =>
                PropertyOf(out.field_defs[i])
                  = [type |-> "array",
                     items |-> schema_code([out.field_defs[i] EXCEPT !.is_array = FALSE])]

\* C24: a field whose shape is Unknown is rendered permissively by the three
\* emitters: `unknown` in the static type, `z.unknown()` in the validator
\* (each followed by its optional wrap when the field is optional), and a
\* JSON-Schema property that is not a call into another type's json_schema().
C24_UnknownIsPermissive ==
    StructExpanded =>
        \A i \in 1..Len(out.field_defs) :
            LET fld == out.field_defs[i] IN
            (fld.field_type.t = "Unknown" /\ ~fld.is_array /\ NameUniqueAt(i)) =>
                /\ StartsWith(out.ts_definition.type_code[i].ty, S_unknown)
                /\ StartsWith(out.zod_schema.schema_code[i].zod, S_z_unknown)
                /\ "call" \notin DOMAIN PropertyOf(fld)

\* the field's declared type is Vec<Vec<T>>
IsVecOfVec(ty) ==
    /\ ty.k = "Path" /\ ty.arguments.a = "AngleBracketed" /\ ty.ident = I_Vec
    /\ Len(ty.arguments.args) = 1
    /\ ty.arguments.args[1].k = "Path"
    /\ ty.arguments.args[1].arguments.a = "AngleBracketed"
    /\ ty.arguments.args[1].ident = I_Vec
    /\ Len(ty.arguments.args[1].arguments.args) = 1

\* C25: a field declared Vec<Vec<T>> keeps both levels of wrapping: its
\* FieldDef differs from the one of the same field declared Vec<T>, its
\* static type is Array<Array<..>>, its validator z.array(z.array(..)) and
\* the items of its JSON-Schema array are arrays again.
C25_NestedVecPreserved ==
    StructExpanded =>
        \A i \in 1..Len(item.fields) :
            (IsVecOfVec(item.fields[i].ty) /\ NameUniqueAt(i)) =>
                /\ out.field_defs[i]
                     # process_field(item.rename_all,
                           [item.fields[i] EXCEPT !.ty = @.arguments.args[1]])
                /\ StartsWith(out.ts_definition.type_code[i].ty, S_ArrayOpen \o S_ArrayOpen)
                /\ StartsWith(out.zod_schema.schema_code[i].zod,
                              S_z_array_open \o S_z_array_open)
                /\ PropertyOf(out.field_defs[i]).type = "array"
                /\ "type" \in DOMAIN PropertyOf(out.field_defs[i]).items
                /\ PropertyOf(out.field_defs[i]).items.type = "array"

\* the last line of a variant record written under the name: the one a
\* reader of the record takes when a key is written twice
LastLineNamed(lines, name) ==
    lines[CHOOSE k \in 1..Len(lines) :
            /\ lines[k].name = name
            /\ \A m \in (k + 1)..Len(lines) : lines[m].name # name]

\* C26: at every position i of a discriminated union, the i-th record of the
\* static-type union, the i-th z.discriminatedUnion entry and the i-th oneOf
\* schema carry the same tag value, list the same field names, and agree on
\* which of them are optional.
C26_VariantRecordsAgree ==
    EnumExpanded =>
        /\ Len(out.ts_definition.type_code) = Len(out.json_schema.oneOf)
        /\ Len(out.zod_schema.options) = Len(out.json_schema.oneOf)
        /\ \A i \in 1..Len(out.json_schema.oneOf) :
              LET ts == out.ts_definition.type_code[i]
                  zod == out.zod_schema.options[i]
                  js == out.json_schema.oneOf[i]
                  tag_value == js.properties[out.tag_name].const
              IN /\ ts[1].name = out.tag_name /\ ts[1].ty = Quoted(tag_value)
                 /\ zod[1].name = out.tag_name
                 /\ zod[1].zod = S_z_literal_open \o tag_value \o S_z_literal_close
                 /\ Len(ts) = Len(zod)
                 /\ \A k \in 1..Len(ts) :
                       /\ ts[k].name = zod[k].name
                       /\ EndsWith(ts[k].ty, S_OrUndefined)
                            <=> EndsWith(zod[k].zod, S_dot_optional)
                 /\ {ts[k].name : k \in 1..Len(ts)} = DOMAIN js.properties
                 /\ \A name \in DOMAIN js.properties :
                       EndsWith(LastLineNamed(ts, name).ty, S_OrUndefined)
                         <=> (\A r \in 1..Len(js.required) : js.required[r] # name)

\* how many lines of a variant record are written under the name
LinesNamed(lines, name) == Cardinality({k \in 1..Len(lines) : lines[k].name = name})

\* C28: in every variant of a discriminated union the tag field name is a key
\* of the static-type record exactly once, of the validator object exactly
\* once, of the JSON-Schema properties, and an entry of `required` exactly
\* once, also when the variant declares a field whose final name is the tag
\* field name.
C28_TagKeyOnce ==
    EnumExpanded =>
        \A i \in 1..Len(out.json_schema.oneOf) :
            /\ LinesNamed(out.ts_definition.type_code[i], out.tag_name) = 1
            /\ LinesNamed(out.zod_schema.options[i], out.tag_name) = 1
            /\ out.tag_name \in DOMAIN out.json_schema.oneOf[i].properties
            /\ Cardinality({r \in 1..Len(out.json_schema.oneOf[i].required) :
                              out.json_schema.oneOf[i].required[r] = out.tag_name}) = 1

\* C27: the name stored in a field's FieldDef, and written as the key of the
\* field in the static type, in the validator and in the JSON-Schema
\* properties, is the name that name resolution returned for the field,
\* also for names that end in "Json".
C27_FieldNameIsResolvedName ==
    StructExpanded =>
        \A i \in 1..Len(item.fields) :
            LET final_name == get_final_name(item.fields[i].ident, item.fields[i].rename,
                                             item.rename_all)
            IN /\ out.field_defs[i].name = final_name
               /\ out.ts_definition.type_code[i].name = final_name
               /\ out.zod_schema.schema_code[i].name = final_name
               /\ final_name \in DOMAIN out.json_schema.properties

\* C29: a field whose only model_schema_prop override is a min_length keeps
\* it: the FieldDef process_field returns carries a model_schema_prop_meta
\* whose min_length is the one the attribute parser returned.
C29_MinLengthOnlyKept ==
    StructExpanded =>
        \A i \in 1..Len(item.fields) :
            LET prop == item.fields[i].prop IN
            (prop.min_length.some /\ ~prop.as_type.some /\ ~prop.literal.some) =>
                /\ out.field_defs[i].model_schema_prop_meta.some
                /\ out.field_defs[i].model_schema_prop_meta.v.min_length = prop.min_length

(***************************************************************************)
(* features/serde.rs: the second name resolver                             *)
(***************************************************************************)
\* the loop body of to_camel_case from 0-based index i - 1, with the
\* accumulated result and the capitalize_next flag
RECURSIVE to_camel_case_loop(_, _, _, _)
to_camel_case_loop(s, i, result, capitalize_next) ==
    IF i > Len(s) THEN result
    ELSE LET c == s[i] IN
         IF c = "_" THEN to_camel_case_loop(s, i + 1, result, TRUE)
         ELSE IF capitalize_next /\ i - 1 > 0 THEN
            to_camel_case_loop(s, i + 1, Append(result, ToUpperChar(c)), FALSE)
         ELSE to_camel_case_loop(s, i + 1, Append(result, c), FALSE)

\* to_camel_case(s)
to_camel_case(s) == to_camel_case_loop(s, 1, <<>>, FALSE)

\* to_pascal_case(s): the first character of the camel form upper-cased
to_pascal_case(s) ==
    LET camel == to_camel_case(s) IN
    IF camel # <<>> THEN <<ToUpperChar(camel[1])>> \o SubSeq(camel, 2, Len(camel))
    ELSE camel

\* to_kebab_case(s): s.replace('_', "-")
to_kebab_case(s) == [i \in 1..Len(s) |-> IF s[i] = "_" THEN "-" ELSE s[i]]

\* apply_rename_all(field_name, rename_all)
apply_rename_all(field_name, rename_all) ==
    CASE rename_all = Some("camelCase") -> to_camel_case(field_name)
      [] rename_all = Some("PascalCase") -> to_pascal_case(field_name)
      [] rename_all = Some("snake_case") -> field_name
      [] rename_all = Some("SCREAMING_SNAKE_CASE") -> to_uppercase(field_name)
      [] rename_all = Some("kebab-case") -> to_kebab_case(field_name)
      [] rename_all = Some("lowercase") -> to_lowercase(field_name)
      [] rename_all = Some("UPPERCASE") -> to_uppercase(field_name)
      [] OTHER -> field_name

\* get_final_field_name(original_name, field_meta, type_meta), with the
\* rename of field_meta and the rename_all of type_meta
get_final_field_name(original_name, rename, rename_all) ==
    IF rename.some THEN rename.v ELSE apply_rename_all(original_name, rename_all)

\* C30: the resolver of the compiler, get_final_name, and the resolver of
\* features/serde.rs, get_final_field_name, return the same name for every
\* raw name, explicit rename and container convention.
C30_ResolversAgree ==
    NameResolved =>
        out.final_name = get_final_field_name(item.name, item.field_rename, item.rename_all)

====
